---- MODULE Spec2Model ----
(***************************************************************************)
(* Verification model of include/user_settings.h, the compile-time         *)
(* settings header of the ISS tracker firmware.                            *)
(*                                                                         *)
(* The header is modelled as the token lines the C++ preprocessor sees.    *)
(* The preprocessor is a state machine that reads the header once per      *)
(* #include of a translation unit: it strips comments, honours             *)
(* #pragma once and records every #define in the macro table.  The         *)
(* firmware that consumes the macros (Wi-Fi provisioning, the /loc         *)
(* handler, the home coordinate) is not part of the sources; its three     *)
(* operations are modelled from the specification and are marked so.       *)
(*                                                                         *)
(* A floating-point literal is represented by its exact decimal value in   *)
(* units of 0.0001 degree: 33.7501 is 337501.                              *)
(***************************************************************************)
EXTENDS Integers, Sequences, FiniteSets, TLC

\* ------------------------------------------------------------ tokens

Tok(k, s, n) == [k |-> k, s |-> s, n |-> n]
Str(s)       == Tok("string", s, 0)
Float(n)     == Tok("float", "", n)
Punct(s)     == Tok("punct", s, 0)
Ident(s)     == Tok("ident", s, 0)
Comment(s)   == Tok("comment", s, 0)

\* A "#define NAME body  // trailing" line.
MkDefine(name, body, trailing) ==
    <<Punct("#"), Ident("define"), Ident(name)>> \o body \o trailing

\* ------------------------------------------------------------ the header

File == "user_settings.h"

SsidComment  == <<Comment("Leave empty to use portal")>>
PassComment  == <<Comment("Leave empty to use portal")>>
TokenComment == <<>>

Line1  == <<Comment("---------- USER SETTINGS ----------")>>
Line2  == <<Punct("#"), Ident("pragma"), Ident("once")>>
Line3  == <<Comment("Wi-Fi creds")>>
Line4  == MkDefine("WIFI_SSID", <<Str("")>>, SsidComment)
Line5  == MkDefine("WIFI_PASSWORD", <<Str("")>>, PassComment)
Line6  == <<>>
Line7  == <<Comment("Optional compile-time default home (used until phone pushes)")>>
Line8  == MkDefine("HOME_LAT", <<Float(337501), Punct(";")>>, <<Comment("Atlanta, GA")>>)
Line9  == MkDefine("HOME_LON", <<Float(843885), Punct(";")>>, <<>>)
Line10 == <<>>
Line11 == <<Comment("Token for /loc endpoint; set to \"\" to disable auth")>>
Line12 == MkDefine("LOC_TOKEN", <<Str("")>>, TokenComment)

\* Variants of the header that a slip in editing it would produce.
UserSettings_CommittedCreds ==
    <<Line1, Line2, Line3,
      MkDefine("WIFI_SSID", <<Str("homenet")>>, SsidComment),
      MkDefine("WIFI_PASSWORD", <<Str("hunter2")>>, PassComment),
      Line6, Line7, Line8, Line9, Line10, Line11, Line12>>

UserSettings_CommittedToken ==
    <<Line1, Line2, Line3, Line4, Line5, Line6, Line7, Line8, Line9, Line10,
      Line11, MkDefine("LOC_TOKEN", <<Str("secret")>>, TokenComment)>>

UserSettings_SwappedHome ==
    <<Line1, Line2, Line3, Line4, Line5, Line6, Line7,
      MkDefine("HOME_LAT", <<Float(843885), Punct(";")>>, <<Comment("Atlanta, GA")>>),
      MkDefine("HOME_LON", <<Float(337501), Punct(";")>>, <<>>),
      Line10, Line11, Line12>>

\* The file as shipped.
UserSettings ==
    <<Line1, Line2, Line3, Line4, Line5, Line6,
      Line7, Line8, Line9, Line10, Line11, Line12>>

\* The file after the user filled in the three string settings.
Configure(ssid, pass, tok) ==
    [UserSettings EXCEPT
        ![4]  = MkDefine("WIFI_SSID", <<Str(ssid)>>, SsidComment),
        ![5]  = MkDefine("WIFI_PASSWORD", <<Str(pass)>>, PassComment),
        ![12] = MkDefine("LOC_TOKEN", <<Str(tok)>>, TokenComment)]

Ssids     == {"", "homenet"}
Passwords == {"", "hunter2"}
Tokens    == {"", "secret"}

Headers ==
    {UserSettings} \cup
    {Configure(s, p, t) : s \in Ssids, p \in Passwords, t \in Tokens}

MacroNames == {"WIFI_SSID", "WIFI_PASSWORD", "HOME_LAT", "HOME_LON", "LOC_TOKEN"}

\* ------------------------------------------------------------ preprocessor

\* Translation phase 3: every comment is replaced by white space.
StripComments(line) == SelectSeq(line, LAMBDA t : t.k # "comment")

IsPragmaOnce(l) ==
    /\ Len(l) = 3
    /\ l[1] = Punct("#")
    /\ l[2] = Ident("pragma")
    /\ l[3] = Ident("once")

IsDefine(l) ==
    /\ Len(l) >= 3
    /\ l[1] = Punct("#")
    /\ l[2] = Ident("define")
    /\ l[3].k = "ident"

MacroName(l)   == l[3].s
Replacement(l) == SubSeq(l, 4, Len(l))

\* #pragma once: the file is not read again by a later #include.
MarkOnce_Ignored(files, f) == files

MarkOnce(files, f) == files \cup {f}

\* A macro may be defined again only with the same replacement list.
Conflicts(table, name, body) ==
    name \in DOMAIN table /\ table[name] # body

Record(table, name, body) ==
    [n \in DOMAIN table \cup {name} |-> IF n = name THEN body ELSE table[n]]

\* Macro expansion of a line of tokens (no replacement list of this header
\* names another macro, so one pass suffices).
RECURSIVE Expand(_, _)
Expand(table, toks) ==
    IF toks = <<>> THEN <<>>
    ELSE LET t == Head(toks)
             h == IF t.k = "ident" /\ t.s \in DOMAIN table
                  THEN table[t.s] ELSE <<t>>
         IN  h \o Expand(table, Tail(toks))

\* The value of a string literal / of a (signed) floating-point literal at
\* the head of a token sequence.
StringOf(toks) == toks[1].s

SignedValue(toks) ==
    IF toks[1] = Punct("-") THEN 0 - toks[2].n ELSE toks[1].n

\* ------------------------------------------------------------ state

MaxIncludes == 3

VARIABLES
    hdr,        \* the contents of user_settings.h
    nIncludes,  \* #include "user_settings.h" lines of the translation unit
    incLeft,    \* ... of which this many are still to be processed
    pos,        \* 0: in the including file; else the header line to read next
    onceFiles,  \* files marked by #pragma once
    macros,     \* the macro table: name -> replacement list
    conflict,   \* an incompatible macro redefinition was diagnosed
    linesRead,  \* header lines read so far, over all inclusions
    skipped,    \* inclusions skipped because of #pragma once
    phase,      \* "cpp", "compiled", "running"
    wifiMode,   \* "unset", "portal", "station"
    home,       \* the home coordinate in effect
    overridden, \* a location was pushed and accepted
    lastReq,    \* the last /loc request
    lastStatus  \* "none", "accepted", "rejected"

vars == <<hdr, nIncludes, incLeft, pos, onceFiles, macros, conflict, linesRead,
          skipped, phase, wifiMode, home, overridden, lastReq, lastStatus>>

cppVars == <<incLeft, pos, onceFiles, macros, conflict, linesRead, skipped>>
runVars == <<wifiMode, home, overridden, lastReq, lastStatus>>

NoMacros == [n \in {} |-> <<>>]

\* Locations a phone may push: New York, and the default itself.
Pushes == {<<407128, 0 - 740060>>, <<337501, 843885>>}

NoRequest == [auth |-> FALSE, token |-> "", loc |-> <<0, 0>>]

Requests ==
    {[auth |-> FALSE, token |-> "", loc |-> l] : l \in Pushes} \cup
    {[auth |-> TRUE, token |-> t, loc |-> l] : t \in {"", "secret", "wrong"}, l \in Pushes}

Init ==
    /\ hdr \in Headers
    /\ nIncludes \in 1..MaxIncludes
    /\ incLeft = nIncludes
    /\ pos = 0
    /\ onceFiles = {}
    /\ macros = NoMacros
    /\ conflict = FALSE
    /\ linesRead = 0
    /\ skipped = 0
    /\ phase = "cpp"
    /\ wifiMode = "unset"
    /\ home = <<0, 0>>
    /\ overridden = FALSE
    /\ lastReq = NoRequest
    /\ lastStatus = "none"

\* ------------------------------------------------------------ preprocessing

InHeader == phase = "cpp" /\ pos >= 1 /\ pos <= Len(hdr)
CurLine  == StripComments(hdr[pos])

\* #include "user_settings.h", the file not yet marked: read it.
IncludeEnter ==
    /\ phase = "cpp" /\ pos = 0 /\ incLeft > 0
    /\ File \notin onceFiles
    /\ pos' = 1
    /\ UNCHANGED <<hdr, nIncludes, incLeft, onceFiles, macros, conflict,
                   linesRead, skipped, phase>>
    /\ UNCHANGED runVars

\* #include "user_settings.h", the file marked by #pragma once: skip it.
IncludeSkip ==
    /\ phase = "cpp" /\ pos = 0 /\ incLeft > 0
    /\ File \in onceFiles
    /\ incLeft' = incLeft - 1
    /\ skipped' = skipped + 1
    /\ UNCHANGED <<hdr, nIncludes, pos, onceFiles, macros, conflict,
                   linesRead, phase>>
    /\ UNCHANGED runVars

\* A blank or comment-only line.
TextLine ==
    /\ InHeader
    /\ ~IsPragmaOnce(CurLine) /\ ~IsDefine(CurLine)
    /\ pos' = pos + 1
    /\ linesRead' = linesRead + 1
    /\ UNCHANGED <<hdr, nIncludes, incLeft, onceFiles, macros, conflict,
                   skipped, phase>>
    /\ UNCHANGED runVars

PragmaOnce ==
    /\ InHeader
    /\ IsPragmaOnce(CurLine)
    /\ onceFiles' = MarkOnce(onceFiles, File)
    /\ pos' = pos + 1
    /\ linesRead' = linesRead + 1
    /\ UNCHANGED <<hdr, nIncludes, incLeft, macros, conflict, skipped, phase>>
    /\ UNCHANGED runVars

Define ==
    /\ InHeader
    /\ IsDefine(CurLine)
    /\ LET name == MacroName(CurLine)
           body == Replacement(CurLine)
       IN  /\ conflict' = (conflict \/ Conflicts(macros, name, body))
           /\ macros' = Record(macros, name, body)
    /\ pos' = pos + 1
    /\ linesRead' = linesRead + 1
    /\ UNCHANGED <<hdr, nIncludes, incLeft, onceFiles, skipped, phase>>
    /\ UNCHANGED runVars

\* End of the header: back to the including file.
EndOfHeader ==
    /\ phase = "cpp" /\ pos = Len(hdr) + 1
    /\ pos' = 0
    /\ incLeft' = incLeft - 1
    /\ UNCHANGED <<hdr, nIncludes, onceFiles, macros, conflict, linesRead,
                   skipped, phase>>
    /\ UNCHANGED runVars

\* End of the translation unit: the macro table is final.
EndOfUnit ==
    /\ phase = "cpp" /\ pos = 0 /\ incLeft = 0
    /\ phase' = "compiled"
    /\ UNCHANGED <<hdr, nIncludes>>
    /\ UNCHANGED cppVars
    /\ UNCHANGED runVars

\* ------------------------------------------------------------ firmware

\* Empty SSID or empty password: provision through the captive portal.
UsePortal(ssid, pass) == ssid = "" \/ pass = ""

\* Empty LOC_TOKEN disables authentication; otherwise the request must carry
\* the token as its bearer token.
Authorized(token, req) == token = "" \/ (req.auth /\ req.token = token)

\* The compile-time default home: each macro used as an initializer.
DefaultHome(table) ==
    <<SignedValue(Expand(table, <<Ident("HOME_LAT")>>)),
      SignedValue(Expand(table, <<Ident("HOME_LON")>>))>>

Boot ==
    /\ phase = "compiled" /\ ~conflict
    /\ phase' = "running"
    /\ wifiMode' = IF UsePortal(StringOf(macros["WIFI_SSID"]),
                                StringOf(macros["WIFI_PASSWORD"]))
                   THEN "portal" ELSE "station"
    /\ home' = DefaultHome(macros)
    /\ UNCHANGED <<hdr, nIncludes, overridden, lastReq, lastStatus>>
    /\ UNCHANGED cppVars

\* A phone pushes a location to /loc.
LocRequest(req) ==
    /\ phase = "running"
    /\ lastReq' = req
    /\ IF Authorized(StringOf(macros["LOC_TOKEN"]), req)
       THEN /\ lastStatus' = "accepted"
            /\ home' = req.loc
            /\ overridden' = TRUE
       ELSE /\ lastStatus' = "rejected"
            /\ UNCHANGED <<home, overridden>>
    /\ UNCHANGED <<hdr, nIncludes, phase, wifiMode>>
    /\ UNCHANGED cppVars

Next ==
    \/ IncludeEnter
    \/ IncludeSkip
    \/ TextLine
    \/ PragmaOnce
    \/ Define
    \/ EndOfHeader
    \/ EndOfUnit
    \/ Boot
    \/ \E req \in Requests : LocRequest(req)

Spec == Init /\ [][Next]_vars

\* ------------------------------------------------------------ properties

Compiled == phase # "cpp"
Running  == phase = "running"
Shipped  == hdr = UserSettings

\* The macro table one reading of a header yields.
RECURSIVE OnePassFrom(_, _)
OnePassFrom(lines, table) ==
    IF lines = <<>> THEN table
    ELSE LET l == StripComments(Head(lines))
         IN  OnePassFrom(Tail(lines),
                         IF IsDefine(l)
                         THEN Record(table, MacroName(l), Replacement(l))
                         ELSE table)

OnePass(h) == OnePassFrom(h, NoMacros)

ConfiguredSsid     == StringOf(Replacement(StripComments(hdr[4])))
ConfiguredPassword == StringOf(Replacement(StripComments(hdr[5])))
ConfiguredToken    == StringOf(Replacement(StripComments(hdr[12])))

DocumentedDefaults ==
    [n \in MacroNames |->
        CASE n = "WIFI_SSID"     -> <<Str("")>>
          [] n = "WIFI_PASSWORD" -> <<Str("")>>
          [] n = "HOME_LAT"      -> <<Float(337501)>>
          [] n = "HOME_LON"      -> <<Float(843885)>>
          [] n = "LOC_TOKEN"     -> <<Str("")>>]

\* C1: the shipped header compiles and defines exactly the five macros, each
\* with its documented default: WIFI_SSID = "", WIFI_PASSWORD = "",
\* HOME_LAT = 33.7501, HOME_LON = 84.3885, LOC_TOKEN = "".
C1_DefinesDocumentedDefaults ==
    Compiled /\ Shipped =>
        /\ ~conflict
        /\ DOMAIN macros = MacroNames
        /\ macros = DocumentedDefaults

\* C2: at a use site HOME_LAT and HOME_LON each expand to one floating-point
\* literal and to no other token.
C2_ExpandsToOneFloat ==
    Compiled =>
        \A m \in {"HOME_LAT", "HOME_LON"} :
            LET e == Expand(macros, <<Ident(m)>>)
            IN  Len(e) = 1 /\ e[1].k = "float"

\* C3: whenever WIFI_SSID is empty, and whenever WIFI_PASSWORD is empty, the
\* device provisions through the captive portal; with the shipped header it
\* does.
C3_EmptyCredentialsUsePortal ==
    Running =>
        /\ ConfiguredSsid = "" => wifiMode = "portal"
        /\ ConfiguredPassword = "" => wifiMode = "portal"
        /\ Shipped => wifiMode = "portal"

C3_Witness ==
    /\ Running
    /\ ConfiguredSsid # "" /\ ConfiguredPassword = ""
    /\ wifiMode = "portal"

\* C4: with LOC_TOKEN empty every /loc request is accepted, with or without a
\* token; with LOC_TOKEN non-empty a request is accepted only if it carries
\* LOC_TOKEN as its bearer token; with the shipped header every request is
\* accepted.
C4_TokenGatesLoc ==
    Running /\ lastStatus # "none" =>
        /\ ConfiguredToken = "" => lastStatus = "accepted"
        /\ ConfiguredToken # "" /\ lastStatus = "accepted" =>
               lastReq.auth /\ lastReq.token = ConfiguredToken
        /\ Shipped => lastStatus = "accepted"

C4_Witness ==
    /\ Running
    /\ ConfiguredToken # ""
    /\ lastReq.auth /\ lastReq.token # ConfiguredToken
    /\ lastStatus = "rejected"

C6_DefaultHomeIsAtlanta ==
    Compiled =>
        LET lat == SignedValue(macros["HOME_LAT"])
            lon == SignedValue(macros["HOME_LON"])
        IN  /\ lat = 337501
            /\ lat >= 0 - 900000 /\ lat <= 900000 /\ lat > 0
            /\ lon >= 0 - 1800000 /\ lon <= 1800000 /\ lon < 0
            /\ lon = 0 - 843885

\* C7: including the header n >= 1 times yields the macro definitions of
\* including it once and no redefinition conflict: after the first inclusion
\* the header is never read again, every later #include being skipped.
C7_IncludeIdempotent ==
    /\ Compiled \/ skipped > 0 =>
        /\ macros = OnePass(hdr)
        /\ DOMAIN macros = MacroNames
        /\ ~conflict
        /\ linesRead = Len(hdr)
    /\ Compiled => skipped = nIncludes - 1

C7_Witness ==
    /\ Compiled
    /\ nIncludes > 1
    /\ skipped = nIncludes - 1
    /\ macros = OnePass(hdr)

====
